---- MODULE Spec2Model ----
(***************************************************************************)
(* OAuth token lifecycle of the Basecamp MCP server: the token file of     *)
(* token_storage.py, the refresh orchestration of auth_manager.py and      *)
(* mcp_server.py, and the client builders of the server entry points.      *)
(*                                                                         *)
(* Threads run the handlers step by step.  Every file access of            *)
(* token_storage.py is a step of its own (read, open-truncate, write,      *)
(* chmod, exists, remove), so that the lock discipline is something the    *)
(* model checks instead of assumes.  Threads of one process share the      *)
(* module-level lock; threads of different processes share only the file.  *)
(***************************************************************************)
EXTENDS Integers, Sequences, FiniteSets, TLC

\* ------------------------------------------------------------------ bounds
MaxTime == 1
MaxOps == 2

\* --------------------------------------------------------------- constants
\* timedelta(minutes=5), in seconds
Margin == 300

Threads == {"t1", "t2"}
Procs == {"p1", "p2"}

\* Python None for string-valued fields, and for integer-valued ones
None == "None"
NoInt == -1

\* Values of the inputs
OldAccess == "a"
NewAccess == {"bb"}
OldRefresh == "r"
NewRefresh == "ss"
StoredAccount == "id1"
EnvAccount == "id22"
ExpiresIn == {NoInt, Margin}

\* Length of the JSON text of a string value (the tokens differ in length)
StrLen(s) ==
    CASE s = "a" -> 1
      [] s = "r" -> 1
      [] s = "bb" -> 2
      [] s = "ss" -> 2
      [] s = "id1" -> 1
      [] s = "id22" -> 2
      [] OTHER -> 1

VARIABLES
    file,     \* the token file: [exists, bytes, mode, born]
    lock,     \* token_storage._lock of each process: its holder or None
    procOf,   \* the process each thread runs in
    kind,     \* the program each process runs
    now,      \* the wall clock, in seconds
    env,      \* BASECAMP_ACCOUNT_ID of the environment
    conf,     \* the client configuration of the environment is complete
    pc,       \* position of each thread
    stk,      \* return addresses of each thread
    sop,      \* frame of the token_storage call of each thread
    loc,      \* locals of the handler each thread runs
    ops,      \* number of handlers started so far
    last      \* history: <<record>> of the write that landed last, <<>> if none

vars == <<file, lock, procOf, kind, conf, now, env, pc, stk, sop, loc, ops, last>>

\* ------------------------------------------------------------ persistence
Fields == <<"access_token", "refresh_token", "account_id", "expires_at", "updated_at">>
TimeFields == {"expires_at", "updated_at"}

Cred(at, rt, acct, ea, ua) ==
    [access_token |-> at, refresh_token |-> rt, account_id |-> acct,
     expires_at |-> ea, updated_at |-> ua]

\* datetime.isoformat(): the text of a timestamp
IsoFormat(n) == ToString(n)

\* All timestamps the model can produce
Times == 0 .. (MaxTime + Margin)

\* The timestamp each text of a timestamp stands for
IsoTexts == [x \in {IsoFormat(n) : n \in Times} |-> CHOOSE n \in Times : IsoFormat(n) = x]

\* datetime.fromisoformat(): NoInt stands for ValueError
FromIsoFormat(s) ==
    IF s \in DOMAIN IsoTexts THEN IsoTexts[s] ELSE NoInt

\* JSON text of one field value
JsonText(f, c) ==
    IF f \in TimeFields
    THEN (IF c[f] = NoInt THEN "null" ELSE IsoFormat(c[f]))
    ELSE (IF c[f] = None THEN "null" ELSE c[f])

\* Number of bytes the JSON text of a value takes
Width(f, s) ==
    IF s = "null" THEN 1
    ELSE IF f \in TimeFields THEN 2
    ELSE StrLen(s)

\* The bytes of one field: byte i of the text s of field f
FieldBytes(f, s) == [i \in 1 .. Width(f, s) |-> <<f, s, i>>]

RECURSIVE DumpFrom(_, _)
DumpFrom(c, k) ==
    IF k > Len(Fields) THEN << <<"}", "}", 1>> >>
    ELSE FieldBytes(Fields[k], JsonText(Fields[k], c)) \o DumpFrom(c, k + 1)

\* json.dump({'basecamp': c}, f): the bytes of the document
JsonDump(c) == DumpFrom(c, 1)

\* Does the text of field k start at position p of b, complete?
FieldAt(b, p, k) ==
    /\ p <= Len(b)
    /\ b[p][1] = Fields[k]
    /\ b[p][3] = 1
    /\ LET w == Width(Fields[k], b[p][2])
       IN /\ p + w - 1 <= Len(b)
          /\ \A i \in 1 .. w : b[p + i - 1] = <<Fields[k], b[p][2], i>>

RECURSIVE ParseFrom(_, _, _, _)
\* Result: <<>> for JSONDecodeError, else <<texts of the fields>>.  The
\* parser goes on at position q with the texts a read so far (q and a are
\* bound to their values, which are thus computed once)
ParseFrom(b, p, k, acc) ==
    IF k > Len(Fields)
    THEN (IF p = Len(b) /\ b[p] = <<"}", "}", 1>> THEN <<acc>> ELSE <<>>)
    ELSE IF FieldAt(b, p, k)
         THEN CHOOSE r \in {ParseFrom(b, q, k + 1, a) :
                               q \in {p + Width(Fields[k], b[p][2])},
                               a \in {Append(acc, b[p][2])}} : TRUE
         ELSE <<>>

\* json.load(f): <<>> for JSONDecodeError, else <<the 'basecamp' record>>.
\* expires_at and updated_at stay texts in the file; the record keeps the
\* timestamp fromisoformat gives for them (NoInt when there is none).
JsonLoad(b) ==
    LET S(s) == IF s = "null" THEN None ELSE s
        T(s) == IF s = "null" THEN NoInt ELSE FromIsoFormat(s)
        Record(txt) == Cred(S(txt[1]), S(txt[2]), S(txt[3]), T(txt[4]), T(txt[5]))
    IN CHOOSE x \in {IF r = <<>> THEN <<>> ELSE << Record(r[1]) >> :
                     r \in {ParseFrom(b, 1, 1, <<>>)}} : TRUE

\* _read_tokens(): the 'basecamp' entry of the file, <<>> when the file is
\* missing or is not valid JSON
ReadTokens ==
    IF ~file.exists THEN <<>> ELSE JsonLoad(file.bytes)

\* No file.  born is history: the handler whose open() created the file
NoFile == [exists |-> FALSE, bytes |-> <<>>, mode |-> "none", born |-> "none"]

\* Mode of a file that open(TOKEN_FILE, 'w') creates (0666 less the umask)
DefaultMode == "0644"

\* Mode of a file the process may not open
Unreadable == "0000"

\* A file that holds valid JSON which is no object: the document []
ListDoc == << <<"[", "[]", 1>> >>

\* What _read_tokens() raises: open() of a file the process may not read
\* raises PermissionError, data.get on a document that is no object raises
\* AttributeError; neither is caught.  "none": it returns
ReadError ==
    IF ~file.exists THEN "none"
    ELSE IF file.mode = Unreadable THEN "PermissionError"
    ELSE IF file.bytes = ListDoc THEN "AttributeError"
    ELSE "none"

\* Mode of a file the process may read and not write
ReadOnly == "0400"

\* What open(TOKEN_FILE, 'w') raises: PermissionError on a file the process
\* may not write.  "none": it returns the handle
WriteError ==
    IF file.exists /\ file.mode \in {ReadOnly, Unreadable} THEN "PermissionError"
    ELSE "none"

\* ------------------------------------------------- token_storage.py frames
\* Frame of one token_storage call: the operation, its arguments, the record
\* store_token builds, whether the open handle still names the file, what
\* os.path.exists gave, and the value returned (rtok for get_token, rbool for
\* the others, exc for a raise).  In store_token rtok is what its
\* _read_tokens() gave.
NoCred == Cred(None, None, None, NoInt, NoInt)

Frame(op, at, rt, ein, acct) ==
    [op |-> op, at |-> at, rt |-> rt, ein |-> ein, acct |-> acct,
     rec |-> NoCred, fd |-> FALSE, found |-> FALSE,
     rtok |-> <<>>, rbool |-> FALSE, exc |-> FALSE]

NoSop == Frame("none", None, None, NoInt, None)

SameProc(t, u) == procOf[t] = procOf[u]

\* Mutant: the lock never blocks
LockFreeAlways(t) == TRUE

\* threading.Lock: free to take?
LockFree(t) == lock[procOf[t]] = None

\* A handler at label from calls a token_storage function that takes the
\* lock; cont is where the handler goes on
CallLocked(t, frame, cont) ==
    /\ pc' = [pc EXCEPT ![t] = "ts_acquire"]
    /\ stk' = [stk EXCEPT ![t] = <<cont>> \o @]
    /\ sop' = [sop EXCEPT ![t] = frame]

\* Mutant: store_token goes to the file without the lock
StoreEntryNoLock == "ts_read"

\* store_token(): "with _lock:" is where its body starts
StoreEntry == "ts_acquire"

\* Mutant: no access token is refused
FalsyNever(x) == FALSE

\* "not x" of an optional string: None stands for an absent and for an
\* empty value
Falsy(x) == x = None

\* store_token(): "if not access_token: return False" comes before the lock
CallStore(t, at, rt, ein, acct, cont) ==
    IF Falsy(at)
    THEN /\ pc' = [pc EXCEPT ![t] = cont]
         /\ sop' = [sop EXCEPT ![t] = Frame("store", at, rt, ein, acct)]
         /\ UNCHANGED stk
    ELSE /\ pc' = [pc EXCEPT ![t] = StoreEntry]
         /\ stk' = [stk EXCEPT ![t] = <<cont>> \o @]
         /\ sop' = [sop EXCEPT ![t] = Frame("store", at, rt, ein, acct)]

CallGet(t, cont) == CallLocked(t, Frame("get", None, None, NoInt, None), cont)
CallExpired(t, cont) == CallLocked(t, Frame("expired", None, None, NoInt, None), cont)
CallClear(t, cont) == CallLocked(t, Frame("clear", None, None, NoInt, None), cont)

\* threading.Lock.acquire: the lock once t has it
Take(t) == [lock EXCEPT ![procOf[t]] = t]

\* "with _lock:" entered
TsAcquire(t) ==
    /\ pc[t] = "ts_acquire"
    /\ LockFree(t)
    /\ lock' = Take(t)
    /\ pc' = [pc EXCEPT ![t] = IF sop[t].op = "clear" THEN "ts_exists" ELSE "ts_read"]
    /\ UNCHANGED <<file, procOf, kind, conf, now, env, stk, sop, loc, ops, last>>

\* Mutant: the expiry is taken as it stands, without the margin
ExpiredNoMargin(tok, t0) ==
    IF tok = <<>> THEN TRUE
    ELSE IF tok[1].expires_at = NoInt THEN TRUE
    ELSE t0 > tok[1].expires_at

\* is_token_expired(): the decision on what _read_tokens gave
Expired(tok, t0) ==
    IF tok = <<>> THEN TRUE
    ELSE IF tok[1].expires_at = NoInt THEN TRUE
    ELSE t0 > tok[1].expires_at - Margin

\* Mutant: the record is built without the access token
NewRecordBlank(f, t0) == Cred(None, f.rt, f.acct, NoInt, t0)

\* store_token(): the record built from the arguments at time t0
NewRecord(f, t0) ==
    Cred(f.at, f.rt, f.acct,
         IF f.ein # NoInt /\ f.ein # 0 THEN t0 + f.ein ELSE NoInt,
         t0)

\* tokens = _read_tokens() and what each function computes from it
TsRead(t) ==
    /\ pc[t] = "ts_read"
    /\ LET tok == ReadTokens
           f == sop[t]
       IN CASE ReadError # "none" ->
                 /\ sop' = [sop EXCEPT ![t].exc = TRUE]
                 /\ pc' = [pc EXCEPT ![t] = "ts_release"]
            [] ReadError = "none" /\ f.op = "get" ->
                 /\ sop' = [sop EXCEPT ![t].rtok = tok]
                 /\ pc' = [pc EXCEPT ![t] = "ts_release"]
            [] ReadError = "none" /\ f.op = "expired" ->
                 /\ sop' = [sop EXCEPT ![t].rbool = Expired(tok, now)]
                 /\ pc' = [pc EXCEPT ![t] = "ts_release"]
            [] OTHER ->
                 /\ sop' = [sop EXCEPT ![t].rec = NewRecord(f, now), ![t].rtok = tok]
                 /\ pc' = [pc EXCEPT ![t] = "ts_open"]
    /\ UNCHANGED <<file, lock, procOf, kind, conf, now, env, stk, loc, ops, last>>

\* _write_tokens(): open(TOKEN_FILE, 'w') creates or truncates the file, or
\* raises
TsOpen(t) ==
    /\ pc[t] = "ts_open"
    /\ IF WriteError # "none"
       THEN /\ sop' = [sop EXCEPT ![t].exc = TRUE]
            /\ pc' = [pc EXCEPT ![t] = "ts_release"]
            /\ UNCHANGED <<file, loc>>
       ELSE /\ file' = [exists |-> TRUE, bytes |-> <<>>,
                        mode |-> IF file.exists THEN file.mode ELSE DefaultMode,
                        born |-> IF file.exists THEN file.born ELSE loc[t].op]
            /\ sop' = [sop EXCEPT ![t].fd = TRUE]
            /\ pc' = [pc EXCEPT ![t] = "ts_write"]
            /\ loc' = [loc EXCEPT ![t].wrote = TRUE]
    /\ UNCHANGED <<lock, procOf, kind, conf, now, env, stk, ops, last>>

\* The bytes of a file after b is written at offset 0 of old content o
WriteAt0(b, o) ==
    IF Len(o) > Len(b) THEN b \o SubSeq(o, Len(b) + 1, Len(o)) ELSE b

\* _write_tokens(): json.dump and the close of the file flush the document
\* at the handle's own offset 0; a handle whose file was removed meanwhile
\* writes to the unlinked file
TsWrite(t) ==
    /\ pc[t] = "ts_write"
    /\ IF sop[t].fd
       THEN /\ file' = [file EXCEPT !.bytes = WriteAt0(JsonDump(sop[t].rec), file.bytes)]
            /\ last' = <<sop[t].rec>>
       ELSE UNCHANGED <<file, last>>
    /\ pc' = [pc EXCEPT ![t] = "ts_chmod"]
    /\ UNCHANGED <<lock, procOf, kind, conf, now, env, stk, sop, loc, ops>>

\* _write_tokens(): os.chmod(TOKEN_FILE, 0o600), errors ignored
TsChmod(t) ==
    /\ pc[t] = "ts_chmod"
    /\ file' = IF file.exists THEN [file EXCEPT !.mode = "0600"] ELSE file
    /\ sop' = [sop EXCEPT ![t].rbool = TRUE, ![t].fd = FALSE]
    /\ pc' = [pc EXCEPT ![t] = "ts_release"]
    /\ UNCHANGED <<lock, procOf, kind, conf, now, env, stk, loc, ops, last>>

\* Mutant: the file is removed without looking
ExistsAlways == TRUE

\* os.path.exists(TOKEN_FILE)
Exists == file.exists

\* clear_tokens(): "if os.path.exists(TOKEN_FILE):"
TsExists(t) ==
    /\ pc[t] = "ts_exists"
    /\ pc' = [pc EXCEPT ![t] = IF Exists THEN "ts_remove" ELSE "ts_release"]
    /\ sop' = [sop EXCEPT ![t].rbool = TRUE, ![t].found = file.exists]
    /\ UNCHANGED <<file, lock, procOf, kind, conf, now, env, stk, loc, ops, last>>

\* clear_tokens(): os.remove(TOKEN_FILE); FileNotFoundError when another
\* process removed the file first.  Open handles keep the unlinked file.
TsRemove(t) ==
    /\ pc[t] = "ts_remove"
    /\ IF file.exists
       THEN /\ file' = NoFile
            /\ last' = <<>>
            /\ sop' = [u \in Threads |-> [sop[u] EXCEPT !.fd = FALSE]]
       ELSE /\ sop' = [sop EXCEPT ![t].exc = TRUE, ![t].rbool = FALSE]
            /\ UNCHANGED <<file, last>>
    /\ pc' = [pc EXCEPT ![t] = "ts_release"]
    /\ UNCHANGED <<lock, procOf, kind, conf, now, env, stk, loc, ops>>

\* ------------------------------------------------------ the token endpoint
\* What requests.post(TOKEN_URL, ...) gives: a 200 with a JSON body, another
\* status, or an exception of the transport (status "raise")
Resp(st, at, rt, ein) ==
    [status |-> st, access_token |-> at, refresh_token |-> rt, expires_in |-> ein]

NoResp == Resp("none", None, None, NoInt)

\* A 200 with a new access token, without refresh_token or without
\* expires_in or with both; a 200 whose body has no access_token; a 401; an
\* exception
Responses ==
    ({Resp("200", at, rt, ein) :
        at \in NewAccess, rt \in {None, NewRefresh}, ein \in ExpiresIn}
     \ {Resp("200", at, None, NoInt) : at \in NewAccess})
    \cup {Resp("200", None, None, NoInt),
          Resp("401", None, None, NoInt), Resp("raise", None, None, NoInt)}

\* What the token endpoint answers to the process: a request without client
\* id and secret is not answered with tokens
Answers == IF conf THEN Responses ELSE {r \in Responses : r.status # "200"}

\* ------------------------------------------------------ locals of a handler
\* op: the handler; td: its token_data; tdr: token_data of
\* refresh_oauth_token; tdc: token_data of mcp_server.get_basecamp_client;
\* resp: the answer of the token endpoint; sent: refresh requests sent;
\* rtoken: what refresh_oauth_token returned; client, acct: access token and
\* account of the BasecampClient built; exc: the exception raised;
\* api: the access token the Basecamp request carried; result: what the
\* handler returned.
\* History of the request, for the properties: exp: what the handler's own
\* is_token_expired() call returned; refreshable: the handler found the
\* credential expired and with a refresh token; rstatus: the status of the last
\* answer of the token endpoint; wrote: the current handler (for the Flask
\* server: the current refresh_oauth_token call) opened the file for writing;
\* stale: the client's token was the stored one and is_token_expired() was
\* true when the client was built; calls: requests made to the Basecamp API;
\* apistatus: what the request of a tool server gave; callback: what the
\* browser brought to /auth/callback; idsent: requests sent to the identity
\* endpoint; conn: the request added an entry to active_connections
NoLoc ==
    [op |-> "none", td |-> <<>>, tdr |-> <<>>, tdc |-> <<>>, resp |-> NoResp,
     sent |-> 0, rtoken |-> None, client |-> None, acct |-> None,
     exc |-> "none", api |-> None, result |-> "none",
     exp |-> "none", refreshable |-> FALSE, rstatus |-> "none",
     wrote |-> FALSE, stale |-> FALSE, calls |-> 0, apistatus |-> "none",
     callback |-> "none", idsent |-> 0, conn |-> FALSE]

BoolText(b) == IF b THEN "True" ELSE "False"

\* The program that serves each handler: auth_manager.py run as a script or
\* imported, the Flask server mcp_server.py, basecamp_fastmcp.py,
\* mcp_server_cli.py, and the Flask application oauth_app.py
Program(name) ==
    CASE name = "ensure_authenticated" -> "auth_manager"
      [] name \in {"mcp_action", "composio", "initiate_connection"} -> "mcp_server"
      [] name = "fastmcp" -> "basecamp_fastmcp"
      [] name = "cli" -> "mcp_server_cli"
      [] OTHER -> "oauth_app"

Programs == {"auth_manager", "mcp_server", "basecamp_fastmcp", "mcp_server_cli", "oauth_app"}

\* oauth_app.py leaves at import time (sys.exit(1)) when a variable of the
\* client configuration is missing; the other programs start without looking
Serving(p) == kind[p] = "oauth_app" => conf

StartOp(t, name) ==
    /\ pc[t] = "idle"
    /\ kind[procOf[t]] = Program(name)
    /\ Serving(procOf[t])
    /\ ops < MaxOps
    /\ ops' = ops + 1
    /\ loc' = [loc EXCEPT ![t] = [NoLoc EXCEPT !.op = name]]

\* The handler returns v
ReturnOp(t, v) ==
    /\ pc' = [pc EXCEPT ![t] = "done"]
    /\ loc' = [loc EXCEPT ![t].result = v]

\* The thread is free for the next request
Finish(t) ==
    /\ pc[t] = "done"
    /\ pc' = [pc EXCEPT ![t] = "idle"]
    /\ loc' = [loc EXCEPT ![t] = NoLoc]
    /\ sop' = [sop EXCEPT ![t] = NoSop]
    /\ UNCHANGED <<file, lock, procOf, kind, conf, now, env, stk, ops, last>>

\* dict.get on what get_token returned
HasAccess(td) == td # <<>> /\ td[1].access_token # None
HasRefresh(td) == td # <<>> /\ td[1].refresh_token # None

\* ----------------------------------------- auth_manager.ensure_authenticated
\* token_data = token_storage.get_token()
EaStart(t) ==
    /\ StartOp(t, "ensure_authenticated")
    /\ CallGet(t, "ea_got")
    /\ UNCHANGED <<file, lock, procOf, kind, conf, now, env, last>>

\* "if not token_data or not token_data.get('access_token'): return False",
\* else token_storage.is_token_expired()
EaGot(t) ==
    /\ pc[t] = "ea_got"
    /\ IF HasAccess(sop[t].rtok)
       THEN /\ loc' = [loc EXCEPT ![t].td = sop[t].rtok]
            /\ CallExpired(t, "ea_exp")
       ELSE /\ pc' = [pc EXCEPT ![t] = "done"]
            /\ loc' = [loc EXCEPT ![t].td = sop[t].rtok, ![t].result = "False"]
            /\ UNCHANGED <<stk, sop>>
    /\ UNCHANGED <<file, lock, procOf, kind, conf, now, env, ops, last>>

\* Mutant: the refresh token is not looked at
EaCanRefreshAlways(t) == TRUE

\* "refresh_token = token_data.get('refresh_token')": is there one?
EaCanRefresh(t) == HasRefresh(loc[t].td)

\* Mutant: a request that fails is sent again
OAuthSendRetry(n) == n + 2

\* A BasecampOAuth operation: one requests.post or requests.get per call;
\* n requests were sent before
OAuthSend(n) == n + 1

\* "if not is_token_expired(): return True"; without a refresh token
\* "return False"; else BasecampOAuth() raises ValueError without the client
\* configuration ("return False"), and oauth.refresh_token(refresh_token)
\* posts the request
EaExp(t) ==
    /\ pc[t] = "ea_exp"
    /\ IF ~sop[t].rbool
       THEN /\ pc' = [pc EXCEPT ![t] = "done"]
            /\ loc' = [loc EXCEPT ![t].exp = "False", ![t].result = "True"]
       ELSE IF ~EaCanRefresh(t)
            THEN /\ pc' = [pc EXCEPT ![t] = "done"]
                 /\ loc' = [loc EXCEPT ![t].exp = "True", ![t].result = "False"]
            ELSE IF ~conf
            THEN /\ pc' = [pc EXCEPT ![t] = "done"]
                 /\ loc' = [loc EXCEPT ![t].exp = "True", ![t].refreshable = TRUE,
                                        ![t].exc = "ValueError", ![t].result = "False"]
            ELSE /\ pc' = [pc EXCEPT ![t] = "ea_wait"]
                 /\ loc' = [loc EXCEPT ![t].exp = "True", ![t].refreshable = TRUE,
                                        ![t].sent = OAuthSend(@)]
    /\ UNCHANGED <<file, lock, procOf, kind, conf, now, env, stk, sop, ops, last>>

\* Mutant: every answer that arrives is taken for a success
OAuthOkAny(r) == r.status # "raise"

\* BasecampOAuth.refresh_token: "if response.status_code == 200: return
\* response.json()", else it raises; a transport error raises as well
OAuthOk(r) == r.status = "200"

\* Mutant: the refresh token of the answer, present or not
EaNewRefreshResp(t, r) == r.refresh_token

\* "new_refresh_token = new_token_data.get('refresh_token') or refresh_token"
EaNewRefresh(t, r) ==
    IF r.refresh_token # None THEN r.refresh_token ELSE loc[t].td[1].refresh_token

\* Mutant: the account of the environment, as refresh_oauth_token has it
EaAccountEnv(t) == env

\* "account_id = token_data.get('account_id')"
EaAccount(t) == loc[t].td[1].account_id

\* The answer arrives.  An exception of oauth.refresh_token is caught:
\* "return False".  Else token_storage.store_token(...)
EaResp(t) ==
    /\ pc[t] = "ea_wait"
    /\ \E r \in Responses :
         IF ~OAuthOk(r)
         THEN /\ pc' = [pc EXCEPT ![t] = "done"]
              /\ loc' = [loc EXCEPT ![t].resp = r, ![t].rstatus = r.status,
                                     ![t].result = "False"]
              /\ UNCHANGED <<stk, sop>>
         ELSE /\ loc' = [loc EXCEPT ![t].resp = r, ![t].rstatus = r.status]
              /\ CallStore(t, r.access_token, EaNewRefresh(t, r),
                           r.expires_in, EaAccount(t), "ea_stored")
    /\ UNCHANGED <<file, lock, procOf, kind, conf, now, env, ops, last>>

\* store_token returned (its value is not looked at): "return True"
EaStored(t) ==
    /\ pc[t] = "ea_stored"
    /\ ReturnOp(t, "True")
    /\ UNCHANGED <<file, lock, procOf, kind, conf, now, env, stk, sop, ops, last>>

\* ----------------------------------------- mcp_server.refresh_oauth_token
\* Called from a handler; cont is where the caller goes on.
\* token_data = token_storage.get_token()
CallRefresh(t, cont) ==
    /\ pc' = [pc EXCEPT ![t] = "ts_acquire"]
    /\ stk' = [stk EXCEPT ![t] = <<"ro_got", cont>> \o @]
    /\ sop' = [sop EXCEPT ![t] = Frame("get", None, None, NoInt, None)]

\* A function called from a handler returns to its caller
Return(t) ==
    /\ pc' = [pc EXCEPT ![t] = Head(stk[t])]
    /\ stk' = [stk EXCEPT ![t] = Tail(@)]

\* "if not token_data or not token_data.get('refresh_token'): return None",
\* else requests.post(TOKEN_URL, ..., timeout=10)
RoGot(t) ==
    /\ pc[t] = "ro_got"
    /\ IF HasRefresh(sop[t].rtok)
       THEN /\ pc' = [pc EXCEPT ![t] = "ro_wait"]
            /\ loc' = [loc EXCEPT ![t].tdr = sop[t].rtok, ![t].sent = @ + 1,
                                   ![t].wrote = FALSE, ![t].rstatus = "none"]
            /\ UNCHANGED stk
       ELSE /\ loc' = [loc EXCEPT ![t].rtoken = None, ![t].wrote = FALSE,
                                   ![t].rstatus = "none"]
            /\ Return(t)
    /\ UNCHANGED <<file, lock, procOf, kind, conf, now, env, sop, ops, last>>

\* "if response.status_code == 200:"; an exception of requests.post is
\* caught by the except clause
RoOk(r) == r.status = "200"

\* "new_refresh_token = new_token_data.get('refresh_token') or refresh_token"
RoNewRefresh(t, r) ==
    IF r.refresh_token # None THEN r.refresh_token ELSE loc[t].tdr[1].refresh_token

\* "account_id=BASECAMP_ACCOUNT_ID"
RoAccount(t) == env

\* The answer arrives: a 200 is stored; another status, or an exception,
\* returns None
RoResp(t) ==
    /\ pc[t] = "ro_wait"
    /\ \E r \in Answers :
         IF ~RoOk(r)
         THEN /\ loc' = [loc EXCEPT ![t].tdr = <<>>, ![t].rtoken = None,
                                     ![t].rstatus = r.status]
              /\ Return(t)
              /\ UNCHANGED sop
         ELSE /\ loc' = [loc EXCEPT ![t].resp = r, ![t].rstatus = r.status]
              /\ CallStore(t, r.access_token, RoNewRefresh(t, r),
                           r.expires_in, RoAccount(t), "ro_stored")
    /\ UNCHANGED <<file, lock, procOf, kind, conf, now, env, ops, last>>

\* "return access_token"; the locals of the function are gone
RoStored(t) ==
    /\ pc[t] = "ro_stored"
    /\ loc' = [loc EXCEPT ![t].rtoken = loc[t].resp.access_token,
                          ![t].tdr = <<>>, ![t].resp = NoResp]
    /\ Return(t)
    /\ UNCHANGED <<file, lock, procOf, kind, conf, now, env, sop, ops, last>>

\* ----------------------------------------- mcp_server.get_basecamp_client
\* token_data = token_storage.get_token()
CallClient(t, cont) ==
    /\ pc' = [pc EXCEPT ![t] = "ts_acquire"]
    /\ stk' = [stk EXCEPT ![t] = <<"gc_got", cont>> \o @]
    /\ sop' = [sop EXCEPT ![t] = Frame("get", None, None, NoInt, None)]

\* is_token_expired() on the file as it is now, for the token tok
StaleNow(tok) ==
    \E rd \in {ReadTokens} :
        /\ rd # <<>>
        /\ rd[1].access_token = tok
        /\ Expired(rd, now)

\* "account_id = token_data.get('account_id') or BASECAMP_ACCOUNT_ID" and
\* the construction of the client with access token tok
GcBuild(t, tok) ==
    LET td == loc[t].tdc
        account == IF td[1].account_id # None THEN td[1].account_id ELSE env
    IN IF td = <<>>
       THEN loc' = [loc EXCEPT ![t].exc = "AttributeError", ![t].tdc = <<>>]
       ELSE IF account = None
            THEN loc' = [loc EXCEPT ![t].exc = "ValueError", ![t].tdc = <<>>]
            ELSE loc' = [loc EXCEPT ![t].client = tok, ![t].acct = account,
                                    ![t].stale = StaleNow(tok), ![t].tdc = <<>>]

\* "if not token_data or not token_data.get('access_token') or
\* token_storage.is_token_expired()": the first two
GcGot(t) ==
    /\ pc[t] = "gc_got"
    /\ loc' = [loc EXCEPT ![t].tdc = sop[t].rtok]
    /\ IF HasAccess(sop[t].rtok)
       THEN /\ pc' = [pc EXCEPT ![t] = "ts_acquire"]
            /\ stk' = [stk EXCEPT ![t] = <<"gc_exp">> \o @]
            /\ sop' = [sop EXCEPT ![t] = Frame("expired", None, None, NoInt, None)]
       ELSE CallRefresh(t, "gc_refreshed")
    /\ UNCHANGED <<file, lock, procOf, kind, conf, now, env, ops, last>>

\* is_token_expired() returned: refresh, or use the stored access token
GcExp(t) ==
    /\ pc[t] = "gc_exp"
    /\ IF sop[t].rbool
       THEN /\ CallRefresh(t, "gc_refreshed")
            /\ UNCHANGED loc
       ELSE /\ GcBuild(t, loc[t].tdc[1].access_token)
            /\ Return(t)
            /\ UNCHANGED sop
    /\ UNCHANGED <<file, lock, procOf, kind, conf, now, env, ops, last>>

\* refresh_oauth_token() returned: "if not access_token: raise ValueError"
GcRefreshed(t) ==
    /\ pc[t] = "gc_refreshed"
    /\ IF loc[t].rtoken = None
       THEN loc' = [loc EXCEPT ![t].exc = "ValueError", ![t].tdc = <<>>]
       ELSE GcBuild(t, loc[t].rtoken)
    /\ Return(t)
    /\ UNCHANGED <<file, lock, procOf, kind, conf, now, env, sop, ops, last>>

\* ------------------------------------------------------- the Basecamp API
\* What a request to the Basecamp API gives
ApiOutcomes == {"200", "401expired", "500"}

\* client.get_projects() with access token tok; res maps the outcome to
\* what the handler returns
ApiCall(t, tok, stale, res) ==
    \E o \in ApiOutcomes :
        /\ pc' = [pc EXCEPT ![t] = "done"]
        /\ loc' = [loc EXCEPT ![t].api = tok, ![t].stale = stale, ![t].result = res[o],
                              ![t].calls = @ + 1]

\* ------------------------------------------------- mcp_server.mcp_action
MaStart(t) ==
    /\ StartOp(t, "mcp_action")
    /\ CallGet(t, "ma_got")
    /\ UNCHANGED <<file, lock, procOf, kind, conf, now, env, last>>

\* "if not token_data or not token_data.get('access_token')": the
\* authentication_required answer, else is_token_expired()
MaGot(t) ==
    /\ pc[t] = "ma_got"
    /\ IF HasAccess(sop[t].rtok)
       THEN /\ CallExpired(t, "ma_exp")
            /\ loc' = [loc EXCEPT ![t].refreshable = HasRefresh(sop[t].rtok)]
       ELSE /\ ReturnOp(t, "authentication_required")
            /\ UNCHANGED <<stk, sop>>
    /\ UNCHANGED <<file, lock, procOf, kind, conf, now, env, ops, last>>

\* Expired: refresh_oauth_token(); else get_basecamp_client()
MaExp(t) ==
    /\ pc[t] = "ma_exp"
    /\ loc' = [loc EXCEPT ![t].exp = BoolText(sop[t].rbool),
                          ![t].refreshable = @ /\ sop[t].rbool]
    /\ IF sop[t].rbool
       THEN CallRefresh(t, "ma_refreshed")
       ELSE CallClient(t, "ma_client")
    /\ UNCHANGED <<file, lock, procOf, kind, conf, now, env, ops, last>>

\* "if not new_token": the token_expired answer, else get_basecamp_client()
MaRefreshed(t) ==
    /\ pc[t] = "ma_refreshed"
    /\ IF loc[t].rtoken = None
       THEN /\ ReturnOp(t, "token_expired")
            /\ UNCHANGED <<stk, sop>>
       ELSE /\ CallClient(t, "ma_client")
            /\ UNCHANGED loc
    /\ UNCHANGED <<file, lock, procOf, kind, conf, now, env, ops, last>>

\* The client is built, or get_basecamp_client raised (server_error); the
\* action calls the Basecamp API
MaClient(t) ==
    /\ pc[t] = "ma_client"
    /\ IF loc[t].exc # "none"
       THEN ReturnOp(t, "server_error")
       ELSE ApiCall(t, loc[t].client, loc[t].stale,
                    [o \in ApiOutcomes |-> IF o = "200" THEN "success" ELSE "server_error"])
    /\ UNCHANGED <<file, lock, procOf, kind, conf, now, env, stk, sop, ops, last>>

\* -------- basecamp_fastmcp._get_basecamp_client / MCPServer._execute_tool
\* The FastMCP server and the CLI server build the client the same way
ToolServers == {"fastmcp", "cli"}

TcStart(t) ==
    /\ \E srv \in ToolServers : StartOp(t, srv)
    /\ CallGet(t, "tc_got")
    /\ UNCHANGED <<file, lock, procOf, kind, conf, now, env, last>>

\* "if not token_data or not token_data.get('access_token'): return None"
\* (the caller then asks is_token_expired() to pick the error), else
\* is_token_expired()
TcGot(t) ==
    /\ pc[t] = "tc_got"
    /\ loc' = [loc EXCEPT ![t].td = sop[t].rtok]
    /\ IF HasAccess(sop[t].rtok)
       THEN CallExpired(t, "tc_exp")
       ELSE CallExpired(t, "tc_err")
    /\ UNCHANGED <<file, lock, procOf, kind, conf, now, env, ops, last>>

\* Mutant: the stored account_id is not looked at
ToolAccountEnvOnly(td) == env

\* "account_id = token_data.get('account_id') or
\* os.getenv('BASECAMP_ACCOUNT_ID')"
ToolAccount(td) == IF td[1].account_id # None THEN td[1].account_id ELSE env

\* Mutant: every failure of the request is an execution error
ToolResultGeneric ==
    [o \in ApiOutcomes |-> IF o = "200" THEN "success" ELSE "Execution error"]

\* The answers of a tool call to the outcome of the Basecamp request: "if
\* "401" in str(e) and "expired" in str(e).lower()"
ToolResult ==
    [o \in ApiOutcomes |->
        IF o = "200" THEN "success"
        ELSE IF o = "401expired" THEN "OAuth token expired during the API call"
        ELSE "Execution error"]

\* Expired: "return None".  Without an account_id "return None"; else the
\* client is built with the stored access token and the tool runs
TcExp(t) ==
    /\ pc[t] = "tc_exp"
    /\ LET td == loc[t].td
           account == ToolAccount(td)
       IN IF sop[t].rbool \/ account = None
          THEN /\ CallExpired(t, "tc_err")
               /\ loc' = [loc EXCEPT ![t].exp = BoolText(sop[t].rbool),
                                     ![t].refreshable = sop[t].rbool /\ HasRefresh(td)]
          ELSE /\ \E o \in ApiOutcomes :
                    /\ pc' = [pc EXCEPT ![t] = "done"]
                    /\ loc' = [loc EXCEPT ![t].exp = "False",
                                  ![t].client = td[1].access_token,
                                  ![t].acct = account,
                                  ![t].api = td[1].access_token,
                                  ![t].stale = StaleNow(td[1].access_token),
                                  ![t].calls = @ + 1, ![t].apistatus = o,
                                  ![t].result = ToolResult[o]]
               /\ UNCHANGED <<stk, sop>>
    /\ UNCHANGED <<file, lock, procOf, kind, conf, now, env, ops, last>>

\* _get_auth_error_response(): is_token_expired() picks the error
TcErr(t) ==
    /\ pc[t] = "tc_err"
    /\ ReturnOp(t, IF sop[t].rbool THEN "OAuth token expired"
                   ELSE "Authentication required")
    /\ UNCHANGED <<file, lock, procOf, kind, conf, now, env, stk, sop, ops, last>>

\* ------------------------------- composio_integration.get_basecamp_client
CoStart(t) ==
    /\ StartOp(t, "composio")
    /\ CallGet(t, "co_got")
    /\ UNCHANGED <<file, lock, procOf, kind, conf, now, env, last>>

\* "if not token_data or 'access_token' not in token_data: return None";
\* else the client is built with BASECAMP_ACCOUNT_ID (BasecampClient raises
\* ValueError without one) and the tool runs
CoGot(t) ==
    /\ pc[t] = "co_got"
    /\ LET td == sop[t].rtok
       IN IF td = <<>>
          THEN /\ pc' = [pc EXCEPT ![t] = "done"]
               /\ loc' = [loc EXCEPT ![t].td = td, ![t].result = "authentication_required"]
          ELSE IF env = None \/ td[1].access_token = None
               THEN /\ pc' = [pc EXCEPT ![t] = "done"]
                    /\ loc' = [loc EXCEPT ![t].td = td, ![t].exc = "ValueError",
                                           ![t].result = "server_error"]
               ELSE \E o \in ApiOutcomes :
                      /\ pc' = [pc EXCEPT ![t] = "done"]
                      /\ loc' = [loc EXCEPT ![t].td = td,
                                    ![t].client = td[1].access_token,
                                    ![t].acct = env,
                                    ![t].api = td[1].access_token,
                                    ![t].stale = StaleNow(td[1].access_token),
                                    ![t].calls = @ + 1,
                                    ![t].result = IF o = "200" THEN "success" ELSE "server_error"]
    /\ UNCHANGED <<file, lock, procOf, kind, conf, now, env, stk, sop, ops, last>>

\* ------------------------------------------------------- oauth_app.logout
Logout(t) ==
    /\ StartOp(t, "logout")
    /\ CallClear(t, "lo_done")
    /\ UNCHANGED <<file, lock, procOf, kind, conf, now, env, last>>

\* clear_tokens returned (or raised) and the handler answers
LogoutDone(t) ==
    /\ pc[t] = "lo_done"
    /\ ReturnOp(t, IF sop[t].exc THEN "error" ELSE "redirect")
    /\ UNCHANGED <<file, lock, procOf, kind, conf, now, env, stk, sop, ops, last>>

\* ------------------------------------------ leaving a token_storage call
\* The handler ends with the exception, or with the answer of its except
\* clause
Raised(t, v) ==
    /\ pc' = [pc EXCEPT ![t] = "done"]
    /\ stk' = [stk EXCEPT ![t] = <<>>]
    /\ loc' = [loc EXCEPT ![t].result = v, ![t].exc = "StorageError",
                          ![t].tdr = <<>>, ![t].tdc = <<>>]
    /\ UNCHANGED sop

\* An exception leaves a token_storage function whose caller would have gone
\* on at Head(stk[t]): where it is caught.  refresh_oauth_token catches it
\* and returns None; _get_basecamp_client of the tool servers catches it and
\* returns None, and the caller asks is_token_expired() for the error;
\* ensure_authenticated catches it around store_token only; mcp_action,
\* composio_tool and auth_callback answer with their error; an
\* is_token_expired() that raises in the error answer of a tool server ends
\* the tool call with an internal error
Propagate(t) ==
    LET c == Head(stk[t])
    IN CASE c \in {"ro_got", "ro_stored"} ->
              /\ pc' = [pc EXCEPT ![t] = stk[t][2]]
              /\ stk' = [stk EXCEPT ![t] = Tail(Tail(@))]
              /\ loc' = [loc EXCEPT ![t].rtoken = None, ![t].tdr = <<>>,
                                    ![t].resp = NoResp]
              /\ UNCHANGED sop
         [] c \in {"tc_got", "tc_exp"} ->
              /\ pc' = [pc EXCEPT ![t] = "ts_acquire"]
              /\ stk' = [stk EXCEPT ![t] = <<"tc_err">> \o Tail(@)]
              /\ sop' = [sop EXCEPT ![t] = Frame("expired", None, None, NoInt, None)]
              /\ UNCHANGED loc
         [] c = "tc_err" -> Raised(t, "Internal error")
         [] c \in {"ea_got", "ea_exp"} -> Raised(t, "raise")
         [] c = "ea_stored" -> Raised(t, "False")
         [] c = "ac_stored" -> Raised(t, "error")
         [] OTHER -> Raised(t, "server_error")

\* Mutant: the lock is released on a return only
ReleasedOnReturn(t) ==
    IF sop[t].exc THEN lock ELSE [lock EXCEPT ![procOf[t]] = None]

\* threading.Lock.release, which "with _lock:" calls on every way out
Released(t) == [lock EXCEPT ![procOf[t]] = None]

\* "with _lock:" left: the function returns to the handler, or its exception
\* goes to the handler (logout lets the one of clear_tokens through)
TsRelease(t) ==
    /\ pc[t] = "ts_release"
    /\ lock' = Released(t)
    /\ IF sop[t].exc /\ Head(stk[t]) # "lo_done"
       THEN Propagate(t)
       ELSE /\ pc' = [pc EXCEPT ![t] = Head(stk[t])]
            /\ stk' = [stk EXCEPT ![t] = Tail(@)]
            /\ UNCHANGED <<sop, loc>>
    /\ UNCHANGED <<file, procOf, kind, conf, now, env, ops, last>>

\* ------------------------------------------------ oauth_app.auth_callback
\* What the browser brings to /auth/callback
Callbacks == {"error", "nocode", "code"}

\* Account ids get_identity can give when BASECAMP_ACCOUNT_ID is not set:
\* the id of the first bc3 account, or none (no such account, or the
\* request failed, which is logged and ignored)
Identities == {None, StoredAccount}

\* "if error:", "if not code:": the error page; else
\* oauth_client.exchange_code_for_token(code) posts the request
AcStart(t) ==
    /\ pc[t] = "idle"
    /\ kind[procOf[t]] = Program("auth_callback")
    /\ Serving(procOf[t])
    /\ ops < MaxOps
    /\ ops' = ops + 1
    /\ \E q \in Callbacks :
         IF q = "code"
         THEN /\ pc' = [pc EXCEPT ![t] = "ac_wait"]
              /\ loc' = [loc EXCEPT ![t] = [NoLoc EXCEPT !.op = "auth_callback",
                                                         !.callback = q,
                                                         !.sent = OAuthSend(0)]]
         ELSE /\ pc' = [pc EXCEPT ![t] = "done"]
              /\ loc' = [loc EXCEPT ![t] = [NoLoc EXCEPT !.op = "auth_callback",
                                                         !.callback = q,
                                                         !.result = "error"]]
    /\ UNCHANGED <<file, lock, procOf, kind, conf, now, env, stk, sop, last>>

\* "refresh_token = token_data.get('refresh_token')"
AcRefresh(r) == r.refresh_token

\* Mutant: the answer is stored whatever it holds
AcHasTokenAlways(r) == TRUE

\* "access_token = token_data.get('access_token')", "if not access_token:"
AcHasToken(r) == ~Falsy(r.access_token)

\* The answer arrives.  An exception of the exchange, or "if not
\* access_token:", gives the error page; else the account id is
\* BASECAMP_ACCOUNT_ID or the one a get_identity request finds, and
\* token_storage.store_token(...)
AcResp(t) ==
    /\ pc[t] = "ac_wait"
    /\ \E r \in Responses :
         IF ~OAuthOk(r) \/ ~AcHasToken(r)
         THEN /\ pc' = [pc EXCEPT ![t] = "done"]
              /\ loc' = [loc EXCEPT ![t].resp = r, ![t].rstatus = r.status,
                                     ![t].result = "error"]
              /\ UNCHANGED <<stk, sop>>
         ELSE /\ loc' = [loc EXCEPT ![t].resp = r, ![t].rstatus = r.status,
                                     ![t].idsent = IF env # None THEN 0 ELSE OAuthSend(0)]
              /\ \E id \in (IF env # None THEN {env} ELSE Identities) :
                    CallStore(t, r.access_token, AcRefresh(r), r.expires_in, id, "ac_stored")
    /\ UNCHANGED <<file, lock, procOf, kind, conf, now, env, ops, last>>

\* "if not stored:" the error page, else the redirect to home
AcStored(t) ==
    /\ pc[t] = "ac_stored"
    /\ ReturnOp(t, IF sop[t].rbool THEN "redirect" ELSE "error")
    /\ UNCHANGED <<file, lock, procOf, kind, conf, now, env, stk, sop, ops, last>>

\* ------------------------------------------- mcp_server.initiate_connection
\* The store holds an access token that is_token_expired() accepts
StoreValid ==
    \E rd \in {ReadTokens} :
        /\ rd # <<>>
        /\ rd[1].access_token # None
        /\ ~Expired(rd, now)

\* "if not token_data or not token_data.get('access_token'):" the 401
\* answer; else the connection is entered in active_connections and the
\* answer is 'connected'.  td is token_data and exp what is_token_expired()
\* gave; stale is history: the store held no valid access token at the answer
IcAnswer(t, td, exp) ==
    /\ pc' = [pc EXCEPT ![t] = "done"]
    /\ loc' = [loc EXCEPT ![t].td = td, ![t].exp = exp,
                          ![t].stale = ~StoreValid,
                          ![t].conn = HasAccess(td),
                          ![t].result = IF HasAccess(td) THEN "connected"
                                        ELSE "No OAuth token available"]

\* auth_mode 'oauth': token_data = token_storage.get_token()
IcStart(t) ==
    /\ StartOp(t, "initiate_connection")
    /\ CallGet(t, "ic_got")
    /\ UNCHANGED <<file, lock, procOf, kind, conf, now, env, last>>

\* "(not token_data or not token_data.get('access_token') or
\* is_token_expired()) and token_data and token_data.get('refresh_token')":
\* without an access token is_token_expired() is not called
IcGot(t) ==
    /\ pc[t] = "ic_got"
    /\ LET td == sop[t].rtok
       IN IF HasAccess(td)
          THEN /\ loc' = [loc EXCEPT ![t].td = td]
               /\ CallExpired(t, "ic_exp")
          ELSE IF HasRefresh(td)
               THEN /\ loc' = [loc EXCEPT ![t].td = td, ![t].refreshable = TRUE]
                    /\ CallRefresh(t, "ic_refreshed")
               ELSE /\ IcAnswer(t, td, "none")
                    /\ UNCHANGED <<stk, sop>>
    /\ UNCHANGED <<file, lock, procOf, kind, conf, now, env, ops, last>>

\* is_token_expired() returned: refresh_oauth_token() when it is expired and
\* there is a refresh token, else the answer
IcExp(t) ==
    /\ pc[t] = "ic_exp"
    /\ IF sop[t].rbool /\ HasRefresh(loc[t].td)
       THEN /\ loc' = [loc EXCEPT ![t].exp = "True", ![t].refreshable = TRUE]
            /\ CallRefresh(t, "ic_refreshed")
       ELSE /\ IcAnswer(t, loc[t].td, BoolText(sop[t].rbool))
            /\ UNCHANGED <<stk, sop>>
    /\ UNCHANGED <<file, lock, procOf, kind, conf, now, env, ops, last>>

\* "if access_token: token_data = token_storage.get_token()", else the
\* answer on the token_data read first
IcRefreshed(t) ==
    /\ pc[t] = "ic_refreshed"
    /\ IF loc[t].rtoken # None
       THEN /\ CallGet(t, "ic_reget")
            /\ UNCHANGED loc
       ELSE /\ IcAnswer(t, loc[t].td, loc[t].exp)
            /\ UNCHANGED <<stk, sop>>
    /\ UNCHANGED <<file, lock, procOf, kind, conf, now, env, ops, last>>

\* The answer on the token_data read after the refresh
IcReget(t) ==
    /\ pc[t] = "ic_reget"
    /\ IcAnswer(t, sop[t].rtok, loc[t].exp)
    /\ UNCHANGED <<file, lock, procOf, kind, conf, now, env, stk, sop, ops, last>>

\* ----------------------------------------------------------------- clock
\* One unit of the clock is of the order of a token's lifetime: it passes
\* between requests and while a thread waits for the token endpoint, never
\* within the few instructions of a storage call
Quiescent(t) == pc[t] \in {"idle", "done", "ea_wait", "ro_wait", "ac_wait"}

Tick ==
    /\ now < MaxTime
    /\ \A t \in Threads : Quiescent(t)
    /\ now' = now + 1
    /\ UNCHANGED <<file, lock, procOf, kind, conf, env, pc, stk, sop, loc, ops, last>>

\* ------------------------------------------------------------ the system
\* Credentials the authorization callback can have stored at time 0
InitCreds ==
    {Cred(OldAccess, rt, acct, ea, 0) :
        rt \in {None, OldRefresh}, acct \in {None, StoredAccount},
        ea \in {Margin}}

InitCommon ==
    /\ \/ file = NoFile /\ last = <<>>
       \/ \E c \in InitCreds :
            /\ file = [exists |-> TRUE, bytes |-> JsonDump(c), mode |-> "0600",
                        born |-> "auth_callback"]
            /\ last = <<c>>
    /\ lock = [p \in Procs |-> None]
    /\ now = 0
    /\ env \in {None, EnvAccount}
    /\ pc = [t \in Threads |-> "idle"]
    /\ stk = [t \in Threads |-> <<>>]
    /\ sop = [t \in Threads |-> NoSop]
    /\ loc = [t \in Threads |-> NoLoc]
    /\ ops = 0

\* A timestamp whose text datetime.fromisoformat rejects
Garbled == -2

\* States of the storage the program did not leave behind: a file the
\* process may not read, a document that is no object, a record without
\* access token, a record whose expires_at is no timestamp, a document cut
\* short, and a file the process may not write
OtherFiles ==
    LET c == Cred(OldAccess, OldRefresh, StoredAccount, Margin, 0)
        F(b, m) == [exists |-> TRUE, bytes |-> b, mode |-> m, born |-> "none"]
    IN {F(JsonDump(c), Unreadable),
        F(ListDoc, "0600"),
        F(JsonDump(NoCred), "0600"),
        F(JsonDump([c EXCEPT !.expires_at = Garbled]), "0600"),
        F(SubSeq(JsonDump(c), 1, 2), "0600"),
        F(JsonDump(c), ReadOnly)}

\* One process with complete client configuration, the threads of which
\* share the lock
Init ==
    /\ InitCommon
    /\ conf = TRUE
    /\ procOf = [t \in Threads |-> "p1"]
    /\ \E k \in Programs : kind = [p \in Procs |-> k]

\* The programs that run side by side on one token file
Deployments ==
    {<<"auth_manager", "auth_manager">>, <<"auth_manager", "oauth_app">>,
     <<"mcp_server", "oauth_app">>, <<"basecamp_fastmcp", "mcp_server_cli">>}

\* Two processes that share only the file
InitProcs ==
    /\ InitCommon
    /\ conf = TRUE
    /\ procOf = [t \in Threads |-> IF t = "t1" THEN "p1" ELSE "p2"]
    /\ \E d \in Deployments : kind = [p \in Procs |-> IF p = "p1" THEN d[1] ELSE d[2]]

\* One thread of one process, on every state the storage can be in
InitStorage ==
    /\ \/ InitCommon
       \/ /\ file \in OtherFiles
          /\ last = <<>>
          /\ lock = [p \in Procs |-> None]
          /\ now = 0
          /\ env \in {None, EnvAccount}
          /\ pc = [t \in Threads |-> "idle"]
          /\ stk = [t \in Threads |-> <<>>]
          /\ sop = [t \in Threads |-> NoSop]
          /\ loc = [t \in Threads |-> NoLoc]
          /\ ops = 0
    /\ conf = TRUE
    /\ procOf = [t \in Threads |-> IF t = "t1" THEN "p1" ELSE "p2"]
    /\ \E k \in Programs : kind = [p \in Procs |-> IF p = "p1" THEN k ELSE "none"]

\* One process, with or without the client configuration in its environment
InitConfig ==
    /\ InitCommon
    /\ conf \in BOOLEAN
    /\ procOf = [t \in Threads |-> "p1"]
    /\ \E k \in Programs : kind = [p \in Procs |-> k]

\* The steps of a thread that wait for nothing but the lock
Local(t) ==
    \/ TsAcquire(t)
    \/ TsRead(t)
    \/ TsOpen(t)
    \/ TsWrite(t)
    \/ TsChmod(t)
    \/ TsExists(t)
    \/ TsRemove(t)
    \/ TsRelease(t)
    \/ EaStart(t)
    \/ EaGot(t)
    \/ EaExp(t)
    \/ EaStored(t)
    \/ RoGot(t)
    \/ RoResp(t)
    \/ RoStored(t)
    \/ GcGot(t)
    \/ GcExp(t)
    \/ GcRefreshed(t)
    \/ MaStart(t)
    \/ MaGot(t)
    \/ MaExp(t)
    \/ MaRefreshed(t)
    \/ MaClient(t)
    \/ TcStart(t)
    \/ TcGot(t)
    \/ TcExp(t)
    \/ TcErr(t)
    \/ CoStart(t)
    \/ CoGot(t)
    \/ Logout(t)
    \/ LogoutDone(t)
    \/ AcStart(t)
    \/ AcStored(t)
    \/ IcStart(t)
    \/ IcGot(t)
    \/ IcExp(t)
    \/ IcRefreshed(t)
    \/ IcReget(t)
    \/ Finish(t)

\* The steps of a thread: the local ones, and the return of a BasecampOAuth
\* request, which requests.post and requests.get make without a timeout
Step(t) ==
    \/ Local(t)
    \/ EaResp(t)
    \/ AcResp(t)

Next ==
    \/ \E t \in Threads : Step(t)
    \/ Tick

Spec == Init /\ [][Next]_vars

SpecProcs == InitProcs /\ [][Next]_vars

SpecStorage == InitStorage /\ [][Next]_vars

SpecConfig == InitConfig /\ [][Next]_vars

\* Files of the fair system: none, a credential, and files the process may
\* not read or not write
FairFiles ==
    {NoFile,
     [exists |-> TRUE,
      bytes |-> JsonDump(Cred(OldAccess, OldRefresh, StoredAccount, Margin, 0)),
      mode |-> "0600", born |-> "auth_callback"]}
    \cup {f \in OtherFiles : f.mode \in {Unreadable, ReadOnly}}

\* One process with complete configuration, the threads of which share the lock
InitFair ==
    /\ file \in FairFiles
    /\ last = IF file.born = "auth_callback" THEN JsonLoad(file.bytes) ELSE <<>>
    /\ lock = [p \in Procs |-> None]
    /\ now = 0
    /\ env \in {None, EnvAccount}
    /\ conf = TRUE
    /\ pc = [t \in Threads |-> "idle"]
    /\ stk = [t \in Threads |-> <<>>]
    /\ sop = [t \in Threads |-> NoSop]
    /\ loc = [t \in Threads |-> NoLoc]
    /\ ops = 0
    /\ procOf = [t \in Threads |-> "p1"]
    /\ \E k \in Programs : kind = [p \in Procs |-> k]

\* The scheduler runs every thread that can take a local step, and a thread
\* that waits for the lock gets it when it is free again and again.  The
\* request of refresh_oauth_token has a timeout and returns (RoResp is
\* local); a request of BasecampOAuth has none, and nothing makes it return
SpecFair ==
    /\ InitFair
    /\ [][Next]_vars
    /\ \A t \in Threads : WF_vars(Local(t)) /\ SF_vars(TsAcquire(t))

TypeOK ==
    /\ file.exists \in BOOLEAN
    /\ now \in 0 .. MaxTime

\* =============================================================== properties
\* Labels at which a thread is about to touch the token file
FileAccessLabels == {"ts_read", "ts_open", "ts_write", "ts_chmod", "ts_exists", "ts_remove"}

\* Labels between "with _lock:" entered and left
CriticalLabels == FileAccessLabels \cup {"ts_release"}

\* No handler is running
AllQuiet == \A t \in Threads : pc[t] \in {"idle", "done"}

\* The file holds exactly the record of the write that landed last (or is
\* absent when the last thing that happened to it was its removal)
FileWhole ==
    IF last = <<>> THEN ~file.exists
    ELSE file.exists /\ ReadTokens = last

\* t is inside the read-modify-write of store_token
InStore(t) == sop[t].op = "store" /\ pc[t] \in CriticalLabels

\* An account id is there for the client: stored, or BASECAMP_ACCOUNT_ID
AccountAvailable(td) == td[1].account_id # None \/ env # None

\* C1: when ensure_authenticated refreshes an expired credential and the
\* token endpoint answers 200 with a new access token, then once store_token
\* has written (and as long as it holds the lock) the file holds the new
\* access token with the account_id the call started with, and the call
\* returns True.
C1_RefreshedTokenStored ==
    \A t \in Threads :
        (/\ loc[t].op = "ensure_authenticated"
         /\ loc[t].resp.status = "200"
         /\ loc[t].resp.access_token # None)
        => /\ pc[t] \in {"ts_chmod", "ts_release"} =>
                /\ ReadTokens # <<>>
                /\ ReadTokens[1].access_token = loc[t].resp.access_token
                /\ ReadTokens[1].account_id = loc[t].td[1].account_id
           /\ pc[t] = "done" => loc[t].result = "True" /\ loc[t].wrote

C1_Witness ==
    \E t \in Threads :
        /\ loc[t].op = "ensure_authenticated"
        /\ pc[t] = "done"
        /\ loc[t].result = "True"
        /\ loc[t].exp = "True"
        /\ loc[t].resp.status = "200"
        /\ loc[t].resp.access_token # None
        /\ loc[t].td[1].account_id # None
        /\ ReadTokens # <<>>
        /\ ReadTokens[1].access_token = loc[t].resp.access_token
        /\ ReadTokens[1].account_id = loc[t].td[1].account_id

\* C2: when the refresh request is rejected (status other than 200) or
\* raises, the refresh path reports failure (ensure_authenticated returns
\* False, refresh_oauth_token returns None) and has not opened the token
\* file for writing.
C2_RejectedRefreshWritesNothing ==
    \A t \in Threads :
        /\ (loc[t].op = "ensure_authenticated" /\ loc[t].rstatus \in {"401", "raise"})
           => pc[t] = "done" /\ loc[t].result = "False" /\ ~loc[t].wrote
        /\ (/\ loc[t].op = "mcp_action"
            /\ loc[t].rstatus \in {"401", "raise"}
            /\ pc[t] \in {"ma_refreshed", "gc_refreshed"})
           => loc[t].rtoken = None /\ ~loc[t].wrote

C2_Witness ==
    \E t \in Threads :
        /\ loc[t].op = "ensure_authenticated"
        /\ pc[t] = "done"
        /\ loc[t].rstatus = "401"
        /\ loc[t].result = "False"
        /\ loc[t].sent = 1
        /\ ReadTokens = loc[t].td
        /\ Expired(ReadTokens, now)

\* C3: ensure_authenticated sends a refresh request only after get_token
\* gave a credential with an access token and a refresh token and
\* is_token_expired() returned True; without a credential (or access token),
\* or with an expired credential without refresh token, it returns False,
\* has sent nothing and has not written the file.
C3_RequestOnlyWhenRefreshable ==
    \A t \in Threads :
        loc[t].op = "ensure_authenticated"
        => /\ loc[t].sent > 0 =>
                /\ HasAccess(loc[t].td)
                /\ HasRefresh(loc[t].td)
                /\ loc[t].exp = "True"
           /\ (/\ pc[t] = "done"
               /\ \/ ~HasAccess(loc[t].td)
                  \/ loc[t].exp = "True" /\ ~HasRefresh(loc[t].td))
              => loc[t].result = "False" /\ loc[t].sent = 0 /\ ~loc[t].wrote

C3_Witness ==
    \E t \in Threads :
        /\ loc[t].op = "ensure_authenticated"
        /\ pc[t] = "done"
        /\ HasAccess(loc[t].td)
        /\ ~HasRefresh(loc[t].td)
        /\ loc[t].exp = "True"
        /\ loc[t].result = "False"
        /\ loc[t].sent = 0

\* C4 as stated: with a stored access token that is not expired the call
\* sends nothing to the token endpoint, leaves the file alone,
\* ensure_authenticated returns True, and a tool call goes to the Basecamp
\* API with the stored access token.
C4_ValidTokenProceeds ==
    \A t \in Threads :
        (pc[t] = "done" /\ HasAccess(loc[t].td) /\ loc[t].exp = "False")
        => /\ loc[t].sent = 0
           /\ ~loc[t].wrote
           /\ loc[t].op = "ensure_authenticated" => loc[t].result = "True"
           /\ loc[t].op \in ToolServers => loc[t].api = loc[t].td[1].access_token

\* C4 amended: the same, but the tool call goes to the Basecamp API (with the
\* stored access token, and the stored account_id or else
\* BASECAMP_ACCOUNT_ID) only when an account id is available; without one no
\* request is made and the tool call answers with an authentication error.
C4_ValidTokenProceedsWithAccount ==
    \A t \in Threads :
        (pc[t] = "done" /\ HasAccess(loc[t].td) /\ loc[t].exp = "False")
        => /\ loc[t].sent = 0
           /\ ~loc[t].wrote
           /\ loc[t].op = "ensure_authenticated" => loc[t].result = "True"
           /\ loc[t].op \in ToolServers =>
                IF AccountAvailable(loc[t].td)
                THEN /\ loc[t].api = loc[t].td[1].access_token
                     /\ loc[t].acct = (IF loc[t].td[1].account_id # None
                                       THEN loc[t].td[1].account_id ELSE env)
                ELSE /\ loc[t].api = None
                     /\ loc[t].result \in {"Authentication required", "OAuth token expired"}

C4_Witness ==
    \E t \in Threads :
        /\ loc[t].op = "cli"
        /\ pc[t] = "done"
        /\ loc[t].exp = "False"
        /\ loc[t].api = loc[t].td[1].access_token
        /\ loc[t].acct = StoredAccount
        /\ loc[t].result = "success"
        /\ loc[t].sent = 0

\* C5 as stated: in the FastMCP server, the CLI server and the Flask server
\* a request that finds the stored credential expired but with a refresh token
\* sends a refresh request to the token endpoint.
C5_ExpiredRefreshableIsRefreshed ==
    \A t \in Threads :
        (/\ pc[t] = "done"
         /\ loc[t].op \in ToolServers \cup {"mcp_action"}
         /\ loc[t].refreshable)
        => loc[t].sent >= 1

\* C6 as stated: no request goes to the Basecamp API with a stored access
\* token for which is_token_expired() was true when the client was built.
C6_NoRequestWithExpiredToken ==
    \A t \in Threads : loc[t].api # None => ~loc[t].stale

\* C7: threads of one process: whatever get_token, is_token_expired or
\* store_token is about to read, whatever get_token returns, and what is left
\* when all handlers have returned, is the complete record of one write (the
\* one that landed last), or nothing after a removal: never a mix of two
\* writes.
C7_NoMixedCredential ==
    /\ \A t \in Threads : pc[t] = "ts_read" => FileWhole
    /\ \A t \in Threads : (pc[t] = "ts_release" /\ sop[t].op = "get") => sop[t].rtok = last
    /\ AllQuiet => FileWhole

C7_Witness ==
    \E t, u \in Threads :
        /\ t # u
        /\ SameProc(t, u)
        /\ loc[t].op = "ensure_authenticated" /\ loc[u].op = "ensure_authenticated"
        /\ pc[t] = "done" /\ pc[u] = "done"
        /\ loc[t].td = loc[u].td
        /\ loc[t].wrote /\ loc[u].wrote
        /\ sop[t].rec # sop[u].rec
        /\ ReadTokens = <<sop[u].rec>>

\* C8 as stated: two threads of one process never both send a refresh
\* request for the same expired credential.
C8_SingleRefresh ==
    \A t, u \in Threads :
        (/\ t # u
         /\ SameProc(t, u)
         /\ loc[t].op = "ensure_authenticated" /\ loc[u].op = "ensure_authenticated"
         /\ loc[t].td = loc[u].td)
        => ~(loc[t].sent >= 1 /\ loc[u].sent >= 1)

\* C9: every access to the token file (read, open, write, chmod, exists,
\* remove) is made by the thread that holds the lock of its process, so at
\* most one thread of a process is at the file at any moment, and store_token
\* holds the lock from its read to its chmod.
C9_MutualExclusion ==
    /\ \A t \in Threads : pc[t] \in FileAccessLabels => lock[procOf[t]] = t
    /\ \A t, u \in Threads :
         (t # u /\ SameProc(t, u)) =>
            ~(pc[t] \in FileAccessLabels /\ pc[u] \in FileAccessLabels)
    /\ \A t \in Threads : InStore(t) => lock[procOf[t]] = t

C9_Witness ==
    \E t, u \in Threads :
        /\ t # u
        /\ SameProc(t, u)
        /\ InStore(t) /\ pc[t] = "ts_write"
        /\ lock[procOf[t]] = t
        /\ sop[u].op = "store" /\ pc[u] = "ts_acquire"

\* C10 as stated: two processes without a common lock: once all handlers
\* have returned, the file holds exactly the record of the store that landed
\* last.
C10_LastWriterWins ==
    (AllQuiet /\ last # <<>>) => (file.exists /\ ReadTokens = last)

\* C11: store_token called without access token (None stands for absent and
\* for empty) returns False without taking the lock, opening the file or
\* raising: nothing is written.
C11_EmptyTokenRefused ==
    \A t \in Threads :
        (sop[t].op = "store" /\ sop[t].at = None)
        => /\ ~sop[t].rbool
           /\ ~sop[t].fd
           /\ ~sop[t].exc
           /\ pc[t] \notin CriticalLabels \cup {"ts_acquire"}
           /\ ~loc[t].wrote

C11_Witness ==
    \E t \in Threads :
        /\ sop[t].op = "store"
        /\ sop[t].at = None
        /\ pc[t] = "ea_stored"
        /\ loc[t].resp.status = "200"
        /\ ~sop[t].rbool
        /\ HasAccess(loc[t].td)
        /\ ReadTokens = loc[t].td

\* C12: whenever the token file parses to a credential, that credential has
\* an access token, whatever code exchanges, refreshes (also with answers
\* that lack access_token), stores and logouts have happened.
C12_StoredTokenNonEmpty ==
    ReadTokens # <<>> => ReadTokens[1].access_token # None

C12_Witness ==
    \E t \in Threads :
        /\ loc[t].op = "auth_callback"
        /\ pc[t] = "done"
        /\ loc[t].resp.status = "200"
        /\ loc[t].resp.access_token = None
        /\ loc[t].result = "error"
        /\ ReadTokens # <<>>
        /\ ReadTokens[1].access_token = OldAccess

\* C13: is_token_expired() returns False exactly when the file holds a
\* record whose expires_at is a timestamp and now <= expires_at - 300 s (so
\* it returns True when there is no record, no expires_at, or one that is no
\* timestamp); and store_token with expires_in = E > 0 at time T writes
\* expires_at = T + E, so that the answer is False up to T + E - 300 and True
\* after.
C13_ExpiryMargin ==
    /\ \A t \in Threads :
         (sop[t].op = "expired" /\ pc[t] = "ts_release" /\ ~sop[t].exc)
         => (~sop[t].rbool <=>
                /\ ReadTokens # <<>>
                /\ ReadTokens[1].expires_at # NoInt
                /\ now <= ReadTokens[1].expires_at - 300)
    /\ \A t \in Threads :
         (/\ sop[t].op = "store"
          /\ pc[t] \in {"ts_chmod", "ts_release"}
          /\ ~sop[t].exc
          /\ sop[t].ein > 0)
         => /\ ReadTokens # <<>>
            /\ ReadTokens[1].updated_at = now
            /\ ReadTokens[1].expires_at = now + sop[t].ein

C13_Witness ==
    \E t \in Threads :
        /\ sop[t].op = "expired"
        /\ pc[t] = "ts_release"
        /\ ~sop[t].rbool
        /\ ReadTokens # <<>>
        /\ ReadTokens[1].updated_at > 0
        /\ ReadTokens[1].expires_at = ReadTokens[1].updated_at + 300
        /\ now = ReadTokens[1].expires_at - 300

\* What store_token leaves in the file for the answer r of the token
\* endpoint, apart from refresh_token and account_id
HoldsAnswer(r) ==
    /\ ReadTokens # <<>>
    /\ ReadTokens[1].access_token = r.access_token
    /\ ReadTokens[1].updated_at = now
    /\ ReadTokens[1].expires_at = (IF r.expires_in # NoInt THEN now + r.expires_in ELSE NoInt)

\* t has stored (and still holds the lock) the answer of a refresh that
\* brought an access token but no refresh token
StoredWithoutRefreshToken(t) ==
    /\ sop[t].op = "store"
    /\ pc[t] \in {"ts_chmod", "ts_release"}
    /\ loc[t].resp.status = "200"
    /\ loc[t].resp.access_token # None
    /\ loc[t].resp.refresh_token = None

\* C14: after a successful refresh whose answer has no refresh_token, the
\* file holds the refresh token the refresh started from (the one its
\* get_token read), and access_token, expires_at and updated_at of the new
\* answer; in ensure_authenticated and in refresh_oauth_token.
C14_RefreshTokenKept ==
    \A t \in Threads :
        /\ (loc[t].op = "ensure_authenticated" /\ StoredWithoutRefreshToken(t))
           => /\ HoldsAnswer(loc[t].resp)
              /\ ReadTokens[1].refresh_token = loc[t].td[1].refresh_token
        /\ (loc[t].op = "mcp_action" /\ StoredWithoutRefreshToken(t))
           => /\ HoldsAnswer(loc[t].resp)
              /\ ReadTokens[1].refresh_token = loc[t].tdr[1].refresh_token

C14_Witness ==
    \E t \in Threads :
        /\ loc[t].op = "ensure_authenticated"
        /\ StoredWithoutRefreshToken(t)
        /\ pc[t] = "ts_release"
        /\ loc[t].td[1].refresh_token = OldRefresh
        /\ ReadTokens[1].refresh_token = OldRefresh
        /\ ReadTokens[1].access_token \in NewAccess
        /\ ReadTokens[1].updated_at > loc[t].td[1].updated_at

\* C15 as stated: store_token called without refresh_token keeps the refresh
\* token the file held: once it has written, the file holds the refresh
\* token its _read_tokens() found.
C15_StoreKeepsRefreshToken ==
    \A t \in Threads :
        (/\ sop[t].op = "store"
         /\ pc[t] \in {"ts_chmod", "ts_release"}
         /\ ~sop[t].exc
         /\ sop[t].rt = None
         /\ HasRefresh(sop[t].rtok))
        => /\ ReadTokens # <<>>
           /\ ReadTokens[1].refresh_token = sop[t].rtok[1].refresh_token

\* The storage is in one of the states in which there is no credential to
\* give: no file, a file the process may not read, a file that is not valid
\* JSON, or valid JSON that is not a record with an access token
NoCredentialStored ==
    \/ ~file.exists
    \/ file.mode = Unreadable
    \/ file.bytes = ListDoc
    \/ ReadTokens = <<>>
    \/ ~HasAccess(ReadTokens)

\* C16 as stated: in every such state of the storage get_token returns None
\* and raises nothing.
C16_GetTokenNeverFails ==
    \A t \in Threads :
        (sop[t].op = "get" /\ pc[t] = "ts_release" /\ NoCredentialStored)
        => sop[t].rtok = <<>> /\ ~sop[t].exc

\* C17: clear_tokens returns True without raising and leaves no file, whether
\* it found one or not (so a second call ends in the same state as the
\* first); and with no file get_token returns None.
C17_ClearIdempotent ==
    \A t \in Threads :
        /\ (sop[t].op = "clear" /\ pc[t] = "ts_release")
           => /\ ~file.exists
              /\ ReadTokens = <<>>
              /\ sop[t].rbool
              /\ ~sop[t].exc
        /\ (sop[t].op = "get" /\ pc[t] = "ts_release" /\ ~file.exists)
           => sop[t].rtok = <<>> /\ ~sop[t].exc

C17_Witness ==
    \E t \in Threads :
        /\ loc[t].op = "logout"
        /\ ops = 2
        /\ sop[t].op = "clear"
        /\ pc[t] = "lo_done"
        /\ ~sop[t].found
        /\ sop[t].rbool
        /\ ~sop[t].exc
        /\ file = NoFile

\* C18 as stated: a credential is created only by a successful code
\* exchange: whenever the token file exists and no logout is under way, the
\* open() that created the file was the one of auth_callback (so after a
\* completed logout there is no file until the next exchange stores one).
C18_OnlyExchangeCreates ==
    (file.exists /\ \A t \in Threads : loc[t].op = "logout" => pc[t] = "done")
    => file.born = "auth_callback"

\* C19 as stated: a tool call of the FastMCP or CLI server that finds no
\* credential stored answers 'Authentication required', and makes no request
\* to the token endpoint or the Basecamp API.
C19_NoTokenAuthenticationRequired ==
    \A t \in Threads :
        (/\ pc[t] = "done"
         /\ loc[t].op \in ToolServers
         /\ loc[t].exc = "none"
         /\ loc[t].td = <<>>)
        => /\ loc[t].result = "Authentication required"
           /\ loc[t].sent = 0
           /\ loc[t].calls = 0

\* C20: a tool call of the FastMCP or CLI server whose Basecamp request is
\* answered 401 with an 'expired' text (the stored token was valid for
\* is_token_expired) ends with the 'OAuth token expired during the API call'
\* error, having sent no refresh request, made the one Basecamp request only,
\* and not written the file.
C20_ExpiredDuringCall ==
    \A t \in Threads :
        (loc[t].op \in ToolServers /\ loc[t].apistatus = "401expired")
        => /\ pc[t] = "done"
           /\ loc[t].exp = "False"
           /\ loc[t].result = "OAuth token expired during the API call"
           /\ loc[t].sent = 0
           /\ loc[t].calls = 1
           /\ ~loc[t].wrote

C20_Witness ==
    \E t \in Threads :
        /\ loc[t].op = "fastmcp"
        /\ pc[t] = "done"
        /\ loc[t].apistatus = "401expired"
        /\ loc[t].api = OldAccess
        /\ loc[t].result = "OAuth token expired during the API call"
        /\ loc[t].calls = 1
        /\ ReadTokens = loc[t].td
        /\ ~Expired(ReadTokens, now)

\* C21 as stated: whenever the token file exists and holds a credential
\* with an access token, its mode is 0600 (read and write for the owner
\* only), also between the write of the file and the chmod of _write_tokens.
C21_CredentialFileOwnerOnly ==
    (/\ file.exists
     /\ ReadTokens # <<>>
     /\ ReadTokens[1].access_token # None)
    => file.mode = "0600"

\* C22 as stated: when refresh_oauth_token has stored the answer of a
\* successful refresh (its store_token has written and still holds the
\* lock), the account_id in the file is the one store_token found there,
\* whatever BASECAMP_ACCOUNT_ID is.
C22_RefreshKeepsAccount ==
    \A t \in Threads :
        (/\ loc[t].op = "mcp_action"
         /\ sop[t].op = "store"
         /\ pc[t] \in {"ts_chmod", "ts_release"}
         /\ ~sop[t].exc
         /\ sop[t].rtok # <<>>)
        => /\ ReadTokens # <<>>
           /\ ReadTokens[1].account_id = sop[t].rtok[1].account_id

\* C23 as stated: the handling of one /mcp/action request sends at most one
\* refresh request to the token endpoint.
C23_OneRefreshPerAction ==
    \A t \in Threads : loc[t].op = "mcp_action" => loc[t].sent <= 1

\* C24 as stated: a handler that waits for the answer to a BasecampOAuth
\* request (ensure_authenticated for the refresh, the authorization callback
\* for the code exchange) eventually returns.
C24_ExchangerCallsReturn ==
    \A t \in Threads : (pc[t] \in {"ea_wait", "ac_wait"}) ~> (pc[t] = "done")

\* The handlers that call BasecampOAuth
OAuthCallers == {"ensure_authenticated", "auth_callback"}

\* C25: a call of BasecampOAuth (refresh_token from ensure_authenticated,
\* exchange_code_for_token and get_identity from the authorization callback)
\* sends one request; while it waits the handler has not written the store;
\* on status 200 the caller goes on with the body as it came (the arguments
\* of its store_token are the fields of the body); on another status, or an
\* exception of the transport, the call raises and the caller ends with its
\* failure answer without having written the store.
C25_OneRequestPerCall ==
    \A t \in Threads :
        loc[t].op \in OAuthCallers =>
            /\ loc[t].sent <= 1
            /\ loc[t].idsent <= 1
            /\ pc[t] \in {"ea_wait", "ac_wait"} =>
                  /\ loc[t].sent = 1
                  /\ loc[t].rstatus = "none"
                  /\ ~loc[t].wrote
            /\ loc[t].rstatus # "none" => loc[t].sent = 1
            /\ loc[t].rstatus = "200" =>
                  /\ loc[t].resp \in Responses
                  /\ sop[t].op = "store" =>
                        /\ sop[t].at = loc[t].resp.access_token
                        /\ sop[t].ein = loc[t].resp.expires_in
            /\ loc[t].rstatus \in {"401", "raise"} =>
                  /\ pc[t] = "done"
                  /\ loc[t].result \in {"False", "error"}
                  /\ ~loc[t].wrote

C25_Witness ==
    \E t, u \in Threads :
        /\ loc[t].op = "auth_callback"
        /\ pc[t] = "done"
        /\ loc[t].rstatus = "200"
        /\ loc[t].sent = 1
        /\ loc[t].idsent = 1
        /\ loc[t].result = "redirect"
        /\ loc[u].op = "auth_callback"
        /\ pc[u] = "done"
        /\ loc[u].rstatus = "401"
        /\ loc[u].sent = 1
        /\ loc[u].result = "error"

\* C26: the authorization callback calls store_token only after a code
\* exchange answered 200 with an access token.  A callback with an error or
\* without a code ends with the error page and has sent no request; a failed
\* exchange and an answer without access_token end with the error page; in
\* all four the handler has made no call to the store.
C26_CallbackStoresOnlyAfterExchange ==
    \A t \in Threads :
        loc[t].op = "auth_callback" =>
            /\ loc[t].callback \in {"error", "nocode"} =>
                  /\ pc[t] = "done"
                  /\ loc[t].result = "error"
                  /\ loc[t].sent = 0
                  /\ loc[t].idsent = 0
                  /\ sop[t].op = "none"
                  /\ ~loc[t].wrote
            /\ (\/ loc[t].rstatus \in {"401", "raise"}
                \/ loc[t].rstatus = "200" /\ loc[t].resp.access_token = None) =>
                  /\ pc[t] = "done"
                  /\ loc[t].result = "error"
                  /\ sop[t].op = "none"
                  /\ ~loc[t].wrote
            /\ sop[t].op # "none" =>
                  /\ loc[t].callback = "code"
                  /\ loc[t].rstatus = "200"
                  /\ loc[t].resp.access_token # None

C26_Witness ==
    \E t, u \in Threads :
        /\ loc[t].op = "auth_callback"
        /\ pc[t] = "done"
        /\ loc[t].callback = "nocode"
        /\ loc[u].op = "auth_callback"
        /\ pc[u] = "done"
        /\ loc[u].rstatus = "200"
        /\ loc[u].resp.access_token = None
        /\ loc[u].result = "error"
        /\ last # <<>>
        /\ last[1].access_token = OldAccess
        /\ FileWhole

\* C27 as stated: a process whose environment lacks the client configuration
\* handles no request and sends no refresh request.
C27_NoServiceWithoutClientConfig ==
    ~conf => \A t \in Threads : loc[t].op = "none" /\ loc[t].sent = 0

\* C28 as stated: when ensure_authenticated returns True, the store holds at
\* that moment an access token that is_token_expired() accepts.
C28_TrueMeansValidToken ==
    [][\A t \in Threads :
          (/\ pc[t] # "done"
           /\ pc'[t] = "done"
           /\ loc'[t].op = "ensure_authenticated"
           /\ loc'[t].result = "True")
          => StoreValid']_vars

\* The lock is held by a thread inside a "with _lock:" block only
LockHeldInside ==
    \A t \in Threads : lock[procOf[t]] = t => pc[t] \in CriticalLabels

C30_ConnectedOnlyWithValidToken ==
    \A t \in Threads :
        (loc[t].op = "initiate_connection" /\ pc[t] = "done" /\ loc[t].exc = "none")
        => /\ loc[t].result = "connected" => (loc[t].conn /\ ~loc[t].stale)
           /\ (loc[t].exp = "True" /\ loc[t].rtoken = None)
                 => (loc[t].result = "No OAuth token available" /\ ~loc[t].conn)

====
